---- MODULE Spec2Model ----
(***************************************************************************)
(* Model of the Vega snap request pipeline: onRpcRequest                   *)
(* (packages/snap/src/index.ts), txs.send (transaction.ts), the error      *)
(* constructors (errors.ts), the review dialog (ui.ts) and the node RPC    *)
(* client (node-rpc, whose source is not part of the tree and is modelled  *)
(* from its specification).                                                *)
(*                                                                         *)
(* Every request is a little process: pc[r] is the await at which the      *)
(* handler is suspended, log[r] is the sequence of external effects the    *)
(* request has caused (liveness probes, context fetches, host entropy      *)
(* requests, dialogs, signatures, submissions), outcome[r] is what         *)
(* onRpcRequest returned or threw.                                         *)
(***************************************************************************)
EXTENDS Integers, Sequences, FiniteSets, TLC

(***************************************************************************)
(* JavaScript values.  A value carries its type, so that strict equality   *)
(* (===) and truthiness are computed as JavaScript computes them.          *)
(***************************************************************************)
JsBool(b) == [t |-> "boolean", v |-> b]
JsNum(n) == [t |-> "number", v |-> n]
JsStr(s) == [t |-> "string", v |-> s]
JsNull == [t |-> "null", v |-> "null"]
JsUndefined == [t |-> "undefined", v |-> "undefined"]
JsTrue == JsBool(TRUE)
JsFalse == JsBool(FALSE)

StrictEquals(a, b) == a.t = b.t /\ a.v = b.v

Truthy(a) ==
  CASE a.t = "boolean" -> a.v
    [] a.t = "number" -> a.v # 0
    [] a.t = "string" -> a.v # ""
    [] OTHER -> FALSE

(***************************************************************************)
(* errors.ts                                                               *)
(***************************************************************************)
JSONRPCError(message, code, data) ==
  [class |-> "JSONRPCError", message |-> message, code |-> code, data |-> data]

toJSON(e) == [code |-> e.code, message |-> e.message, data |-> e.data]

methodNotFound == JSONRPCError("Method not found", -32601, JsNull)

invalidParameters(message) == JSONRPCError("Invalid parameters", -1, JsStr(message))

unknownPublicKey ==
  JSONRPCError("Unknown public key", -3, JsStr("The public key is not known to the wallet"))

\* The constructor with the code of its neighbour.
transactionDeniedAsFailed ==
  JSONRPCError("Transaction denied", -5, JsStr("The user denied the transaction"))

transactionDenied ==
  JSONRPCError("Transaction denied", -4, JsStr("The user denied the transaction"))

transactionFailed(cause) == JSONRPCError("Transaction failed", -5, cause)

\* The constructor with the code of its neighbour.
noHealthyNodeAsFailed == JSONRPCError("No healthy node", -5, JsStr("No healthy node found"))

noHealthyNode == JSONRPCError("No healthy node", -6, JsStr("No healthy node found"))

\* The built-in exceptions of the language.
Error(message) == [class |-> "Error", message |-> message]
TypeError(message) == [class |-> "TypeError", message |-> message]

\* What assert of nanoassert throws.
AssertionError(message) == [class |-> "AssertionError", message |-> message]

(***************************************************************************)
(* Bounds and input domains                                                *)
(***************************************************************************)
\* Longest networkEndpoints array a request carries.
MaxEndpoints == 2

\* Request slots.  Spec serves the requests of one caller one after the
\* other in slot r1; the slots do not share any state.
Reqs == {"r1", "r2"}
SeqReqs == {"r1"}

\* The endpoints of a caller, in the order of its list.  The URLs are
\* opaque to the handler: a list is told from another by its length alone.
Urls == <<"http://a/x", "http://b/y", "http://a/z">>

\* The origin (scheme, host and port) of each of them.
URLOrigin == [u \in {Urls[i] : i \in DOMAIN Urls} |->
                IF u = "http://b/y" THEN "http://b" ELSE "http://a"]

FirstUrls(n) == [i \in 1..n |-> Urls[((i - 1) % Len(Urls)) + 1]]

\* The networkEndpoints parameter: absent, an array of URLs (possibly
\* empty) or, wrongly, a single URL string ('http://localhost:1234', 21
\* characters).  length is the JavaScript .length of the value.
EndpointsUndefined == [kind |-> "undefined", val |-> <<>>, length |-> 0]
EndpointsArray(q) == [kind |-> "array", val |-> q, length |-> Len(q)]
EndpointsString == [kind |-> "string", val |-> <<"http://localhost:1234">>, length |-> 21]
NetworkEndpoints ==
  {EndpointsUndefined, EndpointsString}
    \cup {EndpointsArray(FirstUrls(n)) : n \in 0..MaxEndpoints}

SendingModes == {"TYPE_SYNC", "TYPE_ASYNC", "sync"}

\* Strings whose characters matter are sequences of characters.
HexChars == <<"0", "1", "2", "3", "4", "5", "6", "7",
              "8", "9", "a", "b", "c", "d", "e", "f">>

IsHex64(s) == Len(s) = 64 /\ \A i \in 1..Len(s) : \E j \in 1..16 : HexChars[j] = s[i]

\* KeyPair.fromSeed(entropy.index, seed).publicKey.toString() for the
\* entropy of path m/1789'/0'/index': for a fixed host seed a 64 character
\* hex string determined by the index, different for different indices.
publicKeyOf(index) == [i \in 1..64 |-> HexChars[((index + (i - 1)) % 16) + 1]]

PublicKeys == {publicKeyOf(0), publicKeyOf(1), <<"0", "x", "1", "2", "3">>}

\* A command is given by the sequence of its top-level keys (Object.keys)
\* and the names of the fields that its body carries.
Command(keys, fields) == [keys |-> keys, fields |-> fields]
ObjectKeys(transaction) == transaction.keys

Transactions ==
  { Command(<<>>, {}),
    Command(<<"transfer">>, {"asset", "amount"}),
    Command(<<"transfer">>, {"asset", "amount", "unknownField"}),
    Command(<<"orderSubmission">>, {"marketId"}),
    Command(<<"voteSubmission">>, {"proposalId"}),
    Command(<<"transfers">>, {"asset", "amount"}),
    Command(<<"transfer", "orderSubmission">>, {"asset", "amount"}) }

Methods ==
  {"client.list_keys", "client.get_chain_id", "client.send_transaction",
   "client.connect_wallet", "client.disconnect_wallet", "foo"}

NoRequest ==
  [method |-> "", sendingMode |-> "", publicKey |-> <<>>,
   transaction |-> Command(<<>>, {}), networkEndpoints |-> EndpointsUndefined]

\* The requests a caller can send.  A parameter that the handler of the
\* method never reads is left out (it is absent from the request).
Requests ==
  {[NoRequest EXCEPT !.method = m] :
      m \in Methods \ {"client.get_chain_id", "client.send_transaction"}}
  \cup {[NoRequest EXCEPT !.method = "client.get_chain_id", !.networkEndpoints = ne] :
          ne \in NetworkEndpoints}
  \cup {[method |-> "client.send_transaction", sendingMode |-> sm, publicKey |-> pk,
         transaction |-> tx, networkEndpoints |-> ne] :
          sm \in SendingModes, pk \in PublicKeys, tx \in Transactions,
          ne \in NetworkEndpoints}

\* What the confirmation dialog can hand back: the dialog is a black box.
ReviewAnswers == {JsTrue, JsFalse, JsNull, JsNum(1), JsStr("true")}

\* GET /blockchain/height of a node.
ChainContexts ==
  {[height |-> 1, chainId |-> "testnet", hash |-> 5, spamPowDifficulty |-> 2],
   [height |-> 2, chainId |-> "mainnet", hash |-> 11, spamPowDifficulty |-> 3]}

\* POST /transaction/raw of a node: the result code of the node (0 is
\* success) or a failure of the transport.
SubmitResponses ==
  {[transport |-> "ok", code |-> 0, txHash |-> "542d"],
   [transport |-> "ok", code |-> 0, txHash |-> "9f3c"],
   [transport |-> "ok", code |-> 51, txHash |-> "542d"],
   [transport |-> "failed", code |-> 0, txHash |-> ""]}

(***************************************************************************)
(* State                                                                   *)
(***************************************************************************)
VARIABLES
  pc,           \* pc[r]: the await at which request r is suspended
  request,      \* request[r]: the params of the request
  probes,       \* probes[r][i]: outcome of the liveness probe of candidate i
  node,         \* node[r]: index of the candidate findHealthyNode returned, 0 if none
  latestBlock,  \* latestBlock[r]: the chain context fetched by send
  tasks,        \* tasks[r]: state of the two tasks joined by Promise.all
  tx,           \* tx[r]: the signed transaction handed to submitRawTransaction
  outcome,      \* outcome[r]: what onRpcRequest returned or threw
  log           \* log[r]: the external effects of the request, in order

vars == <<pc, request, probes, node, latestBlock, tasks, tx, outcome, log>>

NoBlock == [height |-> 0, chainId |-> "", hash |-> 0, spamPowDifficulty |-> 0]
NoTasks == [pow |-> "idle", inputData |-> "idle", powValue |-> <<>>, inputDataValue |-> <<>>]
NoTx == [raw |-> <<>>, json |-> <<>>]
Pending == [kind |-> "none"]
Returned(value) == [kind |-> "return", value |-> value]
Thrown(error) == [kind |-> "throw", error |-> error]

NoProbes == <<>>

Init ==
  /\ pc = [r \in Reqs |-> "idle"]
  /\ request = [r \in Reqs |-> NoRequest]
  /\ probes = [r \in Reqs |-> NoProbes]
  /\ node = [r \in Reqs |-> 0]
  /\ latestBlock = [r \in Reqs |-> NoBlock]
  /\ tasks = [r \in Reqs |-> NoTasks]
  /\ tx = [r \in Reqs |-> NoTx]
  /\ outcome = [r \in Reqs |-> Pending]
  /\ log = [r \in Reqs |-> <<>>]

(***************************************************************************)
(* ui.ts: the review dialog                                                *)
(***************************************************************************)
TransactionTitles ==
  [orderSubmission |-> "Order submission",
   orderCancellation |-> "Order cancellation",
   orderAmendment |-> "Order amendment",
   withdrawSubmission |-> "Withdraw submission",
   proposalSubmission |-> "Proposal submission",
   voteSubmission |-> "Vote submission",
   liquidityProvisionSubmission |-> "Liquidity provision",
   delegateSubmission |-> "Delegate submission",
   undelegateSubmission |-> "Undelegate submission",
   liquidityProvisionCancellation |-> "Liquidity provision cancellation",
   liquidityProvisionAmendment |-> "Liquidity provision amendment",
   transfer |-> "Transfer",
   cancelTransfer |-> "Cancel transfer",
   announceNode |-> "Announce node",
   batchMarketInstructions |-> "Batch market instructions",
   stopOrdersSubmission |-> "Stop orders submission",
   stopOrdersCancellation |-> "Stop orders cancellation",
   nodeVote |-> "Node vote",
   nodeSignature |-> "Node signature",
   chainEvent |-> "Chain event",
   keyRotateSubmission |-> "Key rotation submission",
   stateVariableProposal |-> "State variable proposal",
   validatorHeartbeat |-> "Validator heartbeat",
   ethereumKeyRotateSubmission |-> "Ethereum key rotation submission",
   protocolUpgradeProposal |-> "Protocol upgrade proposal",
   issueSignatures |-> "Issue signatures",
   oracleDataSubmission |-> "Oracle data submission"]

\* The title looked up without the checks: a key that the table does not
\* have gives the heading undefined.
transactionTitleLenient(transaction) ==
  IF Len(ObjectKeys(transaction)) # 1
    THEN Thrown(invalidParameters("Invalid transaction"))
  ELSE IF ObjectKeys(transaction)[1] \in DOMAIN TransactionTitles
    THEN Returned(TransactionTitles[ObjectKeys(transaction)[1]])
  ELSE Returned("undefined")

\* transactionTitle(tx): the title, or the exception it throws.
transactionTitle(transaction) ==
  IF Len(ObjectKeys(transaction)) # 1
    THEN Thrown(invalidParameters("Invalid transaction"))
  ELSE IF ObjectKeys(transaction)[1] \in DOMAIN TransactionTitles
    THEN Returned(TransactionTitles[ObjectKeys(transaction)[1]])
  ELSE Thrown(invalidParameters("Unknown transaction type"))

\* The whole URL in the place of its origin.
originOfHref(url) == url

\* selectedNetworkEntrypoint.origin
origin(url) == URLOrigin[url]

\* prettyPrintTx(tx, text): the rendered elements (the rendering itself is
\* of no concern here: the command's key stands for it), or the exception.
prettyPrintTx(transaction) ==
  IF Len(ObjectKeys(transaction)) # 1
    THEN Thrown(invalidParameters("Invalid transaction"))
    ELSE Returned(<<"elements", ObjectKeys(transaction)[1]>>)

\* The review as transaction.ts had it: the title looked up by the first key
\* of the command, the command shown as it is, nothing checked.
reviewTransactionUnchecked(transaction, selectedNetworkEntrypoint) ==
  LET key == IF Len(ObjectKeys(transaction)) = 0 THEN "undefined" ELSE ObjectKeys(transaction)[1]
  IN Returned([title |-> IF key \in DOMAIN TransactionTitles
                           THEN TransactionTitles[key] ELSE "undefined",
               elements |-> <<"elements", key>>,
               entrypoint |-> origin(selectedNetworkEntrypoint),
               transaction |-> transaction])

\* reviewTransaction(origin, transaction, selectedNetworkEntrypoint) up to
\* its snap_dialog request: the content of the dialog, or the exception
\* thrown while the content is built (the title is built first).
reviewTransaction(transaction, selectedNetworkEntrypoint) ==
  LET title == transactionTitle(transaction)
      elms == prettyPrintTx(transaction)
  IN IF title.kind = "throw" THEN title
     ELSE IF elms.kind = "throw" THEN elms
     ELSE Returned([title |-> title.value,
                    elements |-> elms.value,
                    entrypoint |-> origin(selectedNetworkEntrypoint),
                    transaction |-> transaction])

(***************************************************************************)
(* index.ts: onRpcRequest                                                  *)
(***************************************************************************)
\* sendingMode !== 'TYPE_SYNC' && sendingMode !== 'TYPE_ASYNC'
invalidSendingMode(sendingMode) ==
  sendingMode # "TYPE_SYNC" /\ sendingMode # "TYPE_ASYNC"

\* !networkEndpoints || networkEndpoints.length === 0
noNetworkEndpoints(networkEndpoints) ==
  networkEndpoints.kind = "undefined" \/ networkEndpoints.length = 0

\* The comparison as a truthiness test (!approved).
notApprovedFalsy(approved) == ~Truthy(approved)

\* approved !== true
notApproved(approved) == ~StrictEquals(approved, JsTrue)

\* The handle standing for the candidate after the one that was found.
getURLOfNextCandidate(r) ==
  request[r].networkEndpoints.val[(node[r] % Len(request[r].networkEndpoints.val)) + 1]

\* node.getURL(): the endpoint of the handle that findHealthyNode returned.
getURL(r) == request[r].networkEndpoints.val[node[r]]

\* The switch without the case of client.disconnect_wallet.
noOpConnectOnly(method) == method = "client.connect_wallet"

\* case 'client.connect_wallet': case 'client.disconnect_wallet':
noOp(method) == method \in {"client.connect_wallet", "client.disconnect_wallet"}

Event(op, arg) == [op |-> op, arg |-> arg]

\* client.get_chain_id that asks the user before it asks the node.
getChainIdRequestReviewed(url) ==
  <<Event("dialog", [title |-> "Get chain id", entrypoint |-> url]), Event("height", url)>>

\* client.get_chain_id on the node it was given: node.blockchainHeight().
getChainIdRequest(url) == <<Event("height", url)>>

\* The handler runs to its next await: the request moves to phase p and has
\* caused the effects evs.
Await(r, p, evs) ==
  /\ pc' = [pc EXCEPT ![r] = p]
  /\ log' = [log EXCEPT ![r] = log[r] \o evs]
  /\ outcome' = [outcome EXCEPT ![r] = Pending]

\* The handler ends: onRpcRequest returns or throws out.
End(r, out) ==
  /\ pc' = [pc EXCEPT ![r] = "done"]
  /\ outcome' = [outcome EXCEPT ![r] = out]
  /\ UNCHANGED log

\* The answer res to the pending external request op has arrived.
Answered(r, op, res) == [log EXCEPT ![r] = Append(log[r], Event(op, res))]

(***************************************************************************)
(* keys.ts: deriveKeyPair                                                  *)
(***************************************************************************)
\* The indices deriveKeyPair is called with, the ends of its interval and
\* their neighbours among them.
\* An index is a JavaScript number, and 2 ** 31 is beyond the integers of
\* the model checker: the number hi * 2^16 + lo, with 0 <= lo < 2^16.
Wide(hi, lo) == [hi |-> hi, lo |-> lo]
Num(n) == Wide(0, n)
lessThan(a, b) == a.hi < b.hi \/ (a.hi = b.hi /\ a.lo < b.lo)

KeyIndices ==
  {Wide(-1, 65535), Num(0), Num(1), Num(10),
   Wide(32767, 65535), Wide(32768, 0), Wide(32768, 1)}

KeyCall(index) == [method |-> "deriveKeyPair", index |-> index]

\* The interval with its upper end included.
validIndexInclusive(index) ==
  ~lessThan(index, Num(0)) /\ ~lessThan(Wide(32768, 0), index)

\* index >= 0 && index < 2 ** 31
validIndex(index) == ~lessThan(index, Num(0)) /\ lessThan(index, Wide(32768, 0))

\* `${index}'`
hardened(index) == <<index, "'">>

\* The request with the path of key 0 whatever the index.
entropyRequestOfKey0(index) ==
  Event("entropy", <<"m", "1789'", "0'", hardened(Num(0))>>)

\* deriveKeyPair(index) up to its snap_getBip32Entropy request.
entropyRequest(index) == Event("entropy", <<"m", "1789'", "0'", hardened(index)>>)

\* The host's answer to snap_getBip32Entropy: for the fixed seed of the
\* host, the node of the path.
getBip32Entropy(path) == [index |-> path[4][1], privateKey |-> <<"0x", path[4][1]>>]

\* KeyPair.fromSeed(index, seed)
fromSeed(index, seed) == [index |-> index, publicKey |-> publicKeyOf(seed.hi + seed.lo)]

\* deriveKeyPair(index), once the host has answered.
deriveKeyPair(index) ==
  LET entropy == getBip32Entropy(entropyRequest(index).arg)
  IN fromSeed(entropy.index, entropy.privateKey[2])

\* deriveKeyPair(index) is called: the assertion fails, or the host is asked
\* for the entropy of the path.
DeriveKeyPair(r, index) ==
  /\ pc[r] = "idle"
  /\ request' = [request EXCEPT ![r] = KeyCall(index)]
  /\ UNCHANGED <<probes, node, latestBlock, tasks, tx>>
  /\ IF validIndex(index)
       THEN Await(r, "deriveKeyPair", <<entropyRequest(index)>>)
       ELSE End(r, Thrown(AssertionError("Key index out of bounds")))

\* The host answers and deriveKeyPair returns the key pair.
DeriveKeyPairDone(r) ==
  /\ pc[r] = "deriveKeyPair"
  /\ End(r, Returned(deriveKeyPair(request[r].index)))
  /\ UNCHANGED <<request, probes, node, latestBlock, tasks, tx>>

\* A request arrives: onRpcRequest runs from its switch to the first await,
\* or to its end.
OnRpcRequest(r, req) ==
  /\ pc[r] = "idle"
  /\ request' = [request EXCEPT ![r] = req]
  /\ probes' = [probes EXCEPT ![r] = [i \in 1..Len(req.networkEndpoints.val) |-> "none"]]
  /\ UNCHANGED <<node, latestBlock, tasks, tx>>
  /\ CASE req.method = "client.list_keys" ->
            Await(r, "list_deriveKeyPair", <<entropyRequest(Num(0))>>)
       [] req.method = "client.get_chain_id" ->
            IF noNetworkEndpoints(req.networkEndpoints)
              THEN End(r, Thrown(Error("No network endpoints provided")))
            ELSE IF req.networkEndpoints.kind # "array"
              THEN End(r, Thrown(TypeError("networkEndpoints.map is not a function")))
            ELSE Await(r, "findHealthyNode", <<>>)
       [] req.method = "client.send_transaction" ->
            IF invalidSendingMode(req.sendingMode)
              THEN End(r, Thrown(Error("Not a valid sending mode.")))
            ELSE IF noNetworkEndpoints(req.networkEndpoints)
              THEN End(r, Thrown(Error("No network endpoints provided")))
            ELSE IF req.networkEndpoints.kind # "array"
              THEN End(r, Thrown(TypeError("networkEndpoints.map is not a function")))
            ELSE Await(r, "findHealthyNode", <<>>)
       [] noOp(req.method) ->
            End(r, Returned(JsNull))
       [] OTHER ->
            End(r, Thrown(Error("Method not found.")))

\* The promise of onRpcRequest has settled and the caller has its response:
\* nothing of the request is kept.
Respond(r) ==
  /\ pc[r] = "done"
  /\ pc' = [pc EXCEPT ![r] = "idle"]
  /\ request' = [request EXCEPT ![r] = NoRequest]
  /\ probes' = [probes EXCEPT ![r] = NoProbes]
  /\ node' = [node EXCEPT ![r] = 0]
  /\ latestBlock' = [latestBlock EXCEPT ![r] = NoBlock]
  /\ tasks' = [tasks EXCEPT ![r] = NoTasks]
  /\ tx' = [tx EXCEPT ![r] = NoTx]
  /\ outcome' = [outcome EXCEPT ![r] = Pending]
  /\ log' = [log EXCEPT ![r] = <<>>]

(***************************************************************************)
(* node-rpc: findHealthyNode and the node handle                           *)
(***************************************************************************)
\* The completions findHealthyNode can have once the liveness probes have
\* had the outcomes p: it returns a handle to a candidate that answered, or
\* rejects with the single no-healthy-node error when every candidate failed.
findHealthyNode(p) ==
  {Returned(i) : i \in {j \in DOMAIN p : p[j] = "ok"}}
    \cup (IF \A j \in DOMAIN p : p[j] = "fail" THEN {Thrown(noHealthyNode)} ELSE {})

\* node.blockchainHeight(): the chain context, or the failure of the fetch.
BlockchainHeightResponses ==
  {Returned(c) : c \in ChainContexts} \cup {Thrown(Error("Failed to fetch"))}

\* node.submitRawTransaction(tx, type): the node's answer when it accepted
\* the transaction; a non-zero result code and a failed transport are the
\* transaction-failed condition, carrying the cause.
submitRawTransaction(response) ==
  IF response.transport = "ok" /\ response.code = 0
    THEN Returned([txHash |-> response.txHash, code |-> response.code])
  ELSE IF response.transport = "ok"
    THEN Thrown(transactionFailed(JsNum(response.code)))
  ELSE Thrown(transactionFailed(JsStr("Failed to fetch")))

\* One candidate answers, or fails to answer, its liveness probe.
Probe(r, i, ok) ==
  /\ pc[r] = "findHealthyNode"
  /\ i \in DOMAIN probes[r]
  /\ probes[r][i] = "none"
  /\ probes' = [probes EXCEPT ![r][i] = IF ok THEN "ok" ELSE "fail"]
  /\ log' = [log EXCEPT ![r] =
               Append(log[r], Event("probe", <<request[r].networkEndpoints.val[i], ok>>))]
  /\ UNCHANGED <<pc, request, node, latestBlock, tasks, tx, outcome>>

\* await rpc.findHealthyNode(...) completes and onRpcRequest runs on: for
\* client.get_chain_id to node.blockchainHeight(), for
\* client.send_transaction into reviewTransaction and its dialog.
FindHealthyNodeDone(r, res) ==
  /\ pc[r] = "findHealthyNode"
  /\ res \in findHealthyNode(probes[r])
  /\ UNCHANGED <<request, probes, latestBlock, tasks, tx>>
  /\ IF res.kind = "throw"
       THEN End(r, res) /\ UNCHANGED node
       ELSE /\ node' = [node EXCEPT ![r] = res.value]
            /\ LET url == request[r].networkEndpoints.val[res.value]
                   review == reviewTransaction(request[r].transaction, url)
               IN IF request[r].method = "client.get_chain_id"
                    THEN Await(r, "blockchainHeight", getChainIdRequest(url))
                  ELSE IF review.kind = "throw"
                    THEN End(r, review)
                  ELSE Await(r, "snap_dialog", <<Event("dialog", review.value)>>)

\* client.get_chain_id: node.blockchainHeight() completes.
GetChainId(r, res) ==
  /\ pc[r] = "blockchainHeight"
  /\ res \in BlockchainHeightResponses
  /\ End(r, IF res.kind = "throw" THEN res
            ELSE Returned([chainID |-> res.value.chainId]))
  /\ UNCHANGED <<request, probes, node, latestBlock, tasks, tx>>

\* client.list_keys: the host answers deriveKeyPair(0)'s entropy request.
ListKeys(r) ==
  /\ pc[r] = "list_deriveKeyPair"
  /\ End(r, Returned([keys |-> <<[name |-> "Snap Key 1", publicKey |-> deriveKeyPair(Num(0)).publicKey]>>]))
  /\ UNCHANGED <<request, probes, node, latestBlock, tasks, tx>>

\* The dialog is closed with the answer approved; on approval txs.send
\* starts and fetches the chain context.
ReviewAnswer(r, approved) ==
  /\ pc[r] = "snap_dialog"
  /\ approved \in ReviewAnswers
  /\ IF notApproved(approved)
       THEN /\ pc' = [pc EXCEPT ![r] = "done"]
            /\ outcome' = [outcome EXCEPT ![r] =
                              Thrown(Error("User rejected the transaction"))]
            /\ log' = Answered(r, "answer", approved)
       ELSE /\ pc' = [pc EXCEPT ![r] = "send_blockchainHeight"]
            /\ outcome' = [outcome EXCEPT ![r] = Pending]
            /\ log' = [log EXCEPT ![r] =
                         log[r] \o <<Event("answer", approved),
                                     Event("height", getURL(r))>>]
  /\ UNCHANGED <<request, probes, node, latestBlock, tasks, tx>>

(***************************************************************************)
(* transaction.ts: send                                                    *)
(***************************************************************************)
\* randomTid() and randomNonce(): what the random source can deliver.
Tids == {1, 2}
Nonces == {3, 9}

\* The proof of work of @vegaprotocol/crypto, on a 4 bit digest: solve
\* searches the nonces upwards from 0 for the first one whose digest of
\* (block hash, tid, nonce) has at least difficulty leading zero bits.
powDigest(hash, tid, nonce) == (hash * 31 + tid * 17 + nonce * 7) % 16

leadingZeroBits(d) ==
  IF d = 0 THEN 4 ELSE IF d < 2 THEN 3 ELSE IF d < 4 THEN 2 ELSE IF d < 8 THEN 1 ELSE 0

RECURSIVE solveFrom(_, _, _, _)
solveFrom(difficulty, hash, tid, nonce) ==
  IF leadingZeroBits(powDigest(hash, tid, nonce)) >= difficulty
    THEN nonce
    ELSE solveFrom(difficulty, hash, tid, nonce + 1)

solve(difficulty, hash, tid) ==
  [tid |-> tid, nonce |-> solveFrom(difficulty, hash, tid, 0)]

\* solvePoW with the height of the block as the seed of the puzzle.
solvePoWOnHeight(block, tid) == solve(block.spamPowDifficulty, block.height, tid)

\* solvePoW(latestBlock), for the tid the random source delivered.
solvePoW(block, tid) == solve(block.spamPowDifficulty, block.hash, tid)

\* The fields of the canonical schema that the commands here can carry.
SchemaFields == {"asset", "amount", "marketId", "proposalId"}

\* The command as InputData.encode writes it: the binary form has the keys
\* and the fields of the schema, any other is dropped.
encodedCommand(command) ==
  Command(SelectSeq(ObjectKeys(command), LAMBDA k : k \in DOMAIN TransactionTitles),
          command.fields \cap SchemaFields)

\* sanitizeCommand(command): InputData.decode(InputData.encode({command}))
\* .command.  No caller.
sanitizeCommand(command) == encodedCommand(command)

\* The InputData with the fields of the command left out.
encodeInputDataOfKeys(command, block, nonce) ==
  <<"InputData", [blockHeight |-> block.height, nonce |-> nonce,
                  command |-> Command(ObjectKeys(command), {})]>>

\* encodeInputData(command, latestBlock), for the nonce the random source
\* delivered: the bytes of the InputData message.
encodeInputData(command, block, nonce) ==
  <<"InputData", [blockHeight |-> block.height, nonce |-> nonce,
                  command |-> encodedCommand(command)]>>

toBase64(bytes) == <<"base64", bytes>>
toHex(bytes) == <<"hex", bytes>>
toString(n) == <<"string", n>>

\* The signature over the bytes alone, bound to no chain.
signUnbound(keyPair, inputData, chainId) == <<"ed25519", keyPair.index, "", inputData>>

\* keyPair.sign(inputData, chainId)
sign(keyPair, inputData, chainId) == <<"ed25519", keyPair.index, chainId, inputData>>

\* The proof of work of the JSON form with the tid in the place of the nonce.
powJsonOfTid(p) == [tid |-> p.tid, nonce |-> toString(p.tid)]

\* pow: {tid: pow.tid, nonce: pow.nonce.toString()}
powJson(p) == [tid |-> p.tid, nonce |-> toString(p.nonce)]

\* encodeTransaction with the input data of the JSON form in the encoding of
\* the signature.
encodeTransactionHexJson(inputData, keyPair, p, chainId) ==
  LET signature == [value |-> toHex(sign(keyPair, inputData, chainId)),
                    algo |-> "vega/ed25519", version |-> 1]
      from == [pubKey |-> keyPair.publicKey]
      version == 3
  IN [raw |-> <<"Transaction", [inputData |-> inputData, signature |-> signature,
                                from |-> from, version |-> version, pow |-> p]>>,
      json |-> [inputData |-> toHex(inputData), signature |-> signature,
                from |-> from, version |-> version,
                pow |-> powJson(p)]]

\* encodeTransaction(inputData, keyPair, pow, chainId)
encodeTransaction(inputData, keyPair, p, chainId) ==
  LET signature == [value |-> toHex(sign(keyPair, inputData, chainId)),
                    algo |-> "vega/ed25519", version |-> 1]
      from == [pubKey |-> keyPair.publicKey]
      version == 3
  IN [raw |-> <<"Transaction", [inputData |-> inputData, signature |-> signature,
                                from |-> from, version |-> version, pow |-> p]>>,
      json |-> [inputData |-> toBase64(inputData), signature |-> signature,
                from |-> from, version |-> version,
                pow |-> powJson(p)]]

\* send without the comparison of the keys.
publicKeyMismatchIgnored(keyPair, publicKey) == FALSE

\* keyPair.publicKey.toString() !== publicKey
publicKeyMismatch(keyPair, publicKey) == keyPair.publicKey # publicKey

\* send with the submission's failure swallowed.
sendResultSwallowed(res, transaction) ==
  Returned([sentAt |-> "sentAt",
            transactionHash |-> IF res.kind = "throw" THEN "" ELSE res.value.txHash,
            transaction |-> transaction.json])

\* What send makes of the completion res of node.submitRawTransaction.
sendResult(res, transaction) ==
  IF res.kind = "throw" THEN res
  ELSE Returned([sentAt |-> "sentAt",
                 transactionHash |-> res.value.txHash,
                 transaction |-> transaction.json])

\* node.blockchainHeight() completes; Promise.all starts its two tasks.
SendBlockchainHeight(r, res) ==
  /\ pc[r] = "send_blockchainHeight"
  /\ res \in BlockchainHeightResponses
  /\ IF res.kind = "throw"
       THEN End(r, res) /\ UNCHANGED <<latestBlock, tasks>>
       ELSE /\ latestBlock' = [latestBlock EXCEPT ![r] = res.value]
            /\ tasks' = [tasks EXCEPT ![r].pow = "running", ![r].inputData = "running"]
            /\ Await(r, "send_promiseAll", <<>>)
  /\ UNCHANGED <<request, probes, node, tx>>

\* latestBlock as a variable of the module, shared by the requests in
\* flight: a request sees the block that another one has fetched.
latestBlockShared(r) ==
  IF \E s \in Reqs \ {r} : latestBlock[s] # NoBlock
    THEN latestBlock[CHOOSE s \in Reqs \ {r} : latestBlock[s] # NoBlock]
    ELSE latestBlock[r]

\* const latestBlock = await node.blockchainHeight(): local to the call.
latestBlockOf(r) == latestBlock[r]

\* Promise.all with the join of Promise.any: one result is enough.
promiseAllOfAny(t) == t.pow = "done" \/ t.inputData = "done"

\* Promise.all([solvePoW(...), encodeInputData(...)]) resolves.
promiseAll(t) == t.pow = "done" /\ t.inputData = "done"

\* The proof of work is solved (a task goes on to its end when Promise.all
\* has already rejected; its result is dropped).
SolvePoW(r, tid) ==
  /\ pc[r] \in {"send_promiseAll", "done"}
  /\ tasks[r].pow = "running"
  /\ tasks' = [tasks EXCEPT ![r].pow = "done",
                            ![r].powValue = solvePoW(latestBlockOf(r), tid)]
  /\ UNCHANGED <<pc, request, probes, node, latestBlock, tx, outcome, log>>

\* The input data is encoded.
EncodeInputData(r, nonce) ==
  /\ pc[r] \in {"send_promiseAll", "done"}
  /\ tasks[r].inputData = "running"
  /\ tasks' = [tasks EXCEPT ![r].inputData = "done",
                            ![r].inputDataValue =
                               encodeInputData(request[r].transaction, latestBlockOf(r), nonce)]
  /\ UNCHANGED <<pc, request, probes, node, latestBlock, tx, outcome, log>>

\* One of the two tasks throws: Promise.all rejects at once and send, then
\* onRpcRequest, throw that exception out.
\* A failure after the rejection is dropped by Promise.all.
TaskFails(r, task) ==
  /\ pc[r] \in {"send_promiseAll", "done"}
  /\ tasks[r][task] = "running"
  /\ tasks' = [tasks EXCEPT ![r][task] = "failed"]
  /\ IF pc[r] = "send_promiseAll"
       THEN End(r, Thrown(Error(task)))
       ELSE UNCHANGED <<pc, outcome, log>>
  /\ UNCHANGED <<request, probes, node, latestBlock, tx>>

\* Both tasks are done: Promise.all resolves and send asks the host for the
\* entropy of key 0.
PromiseAll(r) ==
  /\ pc[r] = "send_promiseAll"
  /\ promiseAll(tasks[r])
  /\ Await(r, "send_deriveKeyPair", <<entropyRequest(Num(0))>>)
  /\ UNCHANGED <<request, probes, node, latestBlock, tasks, tx>>

\* The submission sent a second time.
submitRequestTwice(url, t, type) ==
  <<Event("submit", [url |-> url, tx |-> toBase64(t.raw), type |-> type]),
    Event("submit", [url |-> url, tx |-> toBase64(t.raw), type |-> type])>>

\* node.submitRawTransaction(toBase64(tx.raw), sendingMode): the request
\* that goes to the node.
submitRequest(url, t, type) ==
  <<Event("submit", [url |-> url, tx |-> toBase64(t.raw), type |-> type])>>

\* The key pair is derived: send compares it with the caller's key, signs
\* and encodes the transaction and hands it to the node.
SendTransaction(r) ==
  /\ pc[r] = "send_deriveKeyPair"
  /\ LET keyPair == deriveKeyPair(Num(0))
         t == encodeTransaction(tasks[r].inputDataValue, keyPair, tasks[r].powValue,
                                latestBlockOf(r).chainId)
     IN IF publicKeyMismatch(keyPair, request[r].publicKey)
          THEN End(r, Thrown(invalidParameters("Uknown public key"))) /\ UNCHANGED tx
          ELSE /\ tx' = [tx EXCEPT ![r] = t]
               /\ Await(r, "send_submitRawTransaction",
                        <<Event("sign", t.raw[2].signature)>>
                          \o submitRequest(getURL(r), t, request[r].sendingMode))
  /\ UNCHANGED <<request, probes, node, latestBlock, tasks>>

\* node.submitRawTransaction completes and send returns.
SendSubmitted(r, response) ==
  /\ pc[r] = "send_submitRawTransaction"
  /\ response \in SubmitResponses
  /\ pc' = [pc EXCEPT ![r] = "done"]
  /\ outcome' = [outcome EXCEPT ![r] = sendResult(submitRawTransaction(response), tx[r])]
  /\ log' = Answered(r, "response", response)
  /\ UNCHANGED <<request, probes, node, latestBlock, tasks, tx>>

(***************************************************************************)
(* Specification                                                           *)
(***************************************************************************)
Step(r) ==
  \/ \E req \in Requests : OnRpcRequest(r, req)
  \/ Respond(r)
  \/ \E i \in 1..(MaxEndpoints + 1), ok \in BOOLEAN : Probe(r, i, ok)
  \/ \E res \in {Thrown(noHealthyNode)} \cup {Returned(i) : i \in 1..(MaxEndpoints + 1)} :
        FindHealthyNodeDone(r, res)
  \/ \E res \in BlockchainHeightResponses : GetChainId(r, res)
  \/ ListKeys(r)
  \/ \E approved \in ReviewAnswers : ReviewAnswer(r, approved)
  \/ \E res \in BlockchainHeightResponses : SendBlockchainHeight(r, res)
  \/ \E tid \in Tids : SolvePoW(r, tid)
  \/ \E nonce \in Nonces : EncodeInputData(r, nonce)
  \/ \E task \in {"pow", "inputData"} : TaskFails(r, task)
  \/ PromiseAll(r)
  \/ SendTransaction(r)
  \/ \E response \in SubmitResponses : SendSubmitted(r, response)

Next == \E r \in SeqReqs : Step(r)

Spec == Init /\ [][Next]_vars

\* Calls of deriveKeyPair and client.list_keys requests, two at a time.
ListKeysRequest == [NoRequest EXCEPT !.method = "client.list_keys"]

KeysStep(r) ==
  \/ \E index \in KeyIndices : DeriveKeyPair(r, index)
  \/ DeriveKeyPairDone(r)
  \/ OnRpcRequest(r, ListKeysRequest)
  \/ ListKeys(r)
  \/ Respond(r)

KeysNext == \E r \in Reqs : KeysStep(r)

SpecKeys == Init /\ [][KeysNext]_vars

\* Two client.send_transaction requests in flight at once, each with its
\* own command, its own review and its own node responses.
ConcRequests ==
  {[method |-> "client.send_transaction", sendingMode |-> "TYPE_SYNC",
    publicKey |-> publicKeyOf(0), transaction |-> t,
    networkEndpoints |-> EndpointsArray(FirstUrls(1))] :
      t \in {Command(<<"transfer">>, {"asset", "amount"}),
             Command(<<"orderSubmission">>, {"marketId"})}}

ConcStep(r) ==
  \/ \E req \in ConcRequests : OnRpcRequest(r, req)
  \/ Respond(r)
  \/ \E ok \in BOOLEAN : Probe(r, 1, ok)
  \/ \E res \in {Thrown(noHealthyNode), Returned(1)} : FindHealthyNodeDone(r, res)
  \/ \E approved \in {JsTrue, JsFalse} : ReviewAnswer(r, approved)
  \/ \E res \in BlockchainHeightResponses : SendBlockchainHeight(r, res)
  \/ SolvePoW(r, 1)
  \/ EncodeInputData(r, 3)
  \/ PromiseAll(r)
  \/ SendTransaction(r)
  \/ \E response \in SubmitResponses : SendSubmitted(r, response)

ConcNext == \E r \in Reqs : ConcStep(r)

SpecConc == Init /\ [][ConcNext]_vars

(***************************************************************************)
(* Properties                                                              *)
(***************************************************************************)
Ops(r, op) == {i \in DOMAIN log[r] : log[r][i].op = op}
Did(r, op) == Ops(r, op) # {}
ArgOf(r, op) == log[r][CHOOSE i \in Ops(r, op) : TRUE].arg

IsSend(r) == request[r].method = "client.send_transaction"
IsGetChainId(r) == request[r].method = "client.get_chain_id"
IsDone(r) == pc[r] = "done"

\* The request has ended in the JSON-RPC error with this code: the error is
\* what onRpcRequest threw, or what it returned in an {error} envelope.
IsEnvelope(out) == out.kind = "return" /\ "error" \in DOMAIN out.value
ErrorOf(r) ==
  IF outcome[r].kind = "throw" THEN outcome[r].error ELSE outcome[r].value.error
FailsWith(r, code) ==
  /\ IsDone(r)
  /\ \/ outcome[r].kind = "throw" /\ outcome[r].error.class = "JSONRPCError"
     \/ IsEnvelope(outcome[r])
  /\ ErrorOf(r).code = code

NetworkOps == {"probe", "height", "submit"}
NoNetworkCall(r) == \A op \in NetworkOps : ~Did(r, op)

Denied(r) == Did(r, "answer") /\ ~StrictEquals(ArgOf(r, "answer"), JsTrue)

\* C1: a client.send_transaction request whose review is not approved never
\* invokes submitRawTransaction and ends with the transaction-denied error
\* (code -4, message 'Transaction denied').
C1_DeniedIsTransactionDenied ==
  \A r \in Reqs :
    (IsSend(r) /\ Denied(r)) =>
       /\ ~Did(r, "submit")
       /\ IsDone(r) => (FailsWith(r, -4) /\ ErrorOf(r).message = "Transaction denied")

\* C2: the review result is an approval only when it is exactly the boolean
\* true: with any other answer (false, null, a truthy number or string) the
\* request has ended in a failure, nothing was signed and nothing submitted.
C2_OnlyTrueApproves ==
  \A r \in Reqs :
    Denied(r) =>
       /\ ~Did(r, "sign")
       /\ ~Did(r, "submit")
       /\ IsDone(r)
       /\ outcome[r].kind = "throw"

\* A truthy answer that is not true was given, and the request has ended.
C2_Witness ==
  \E r \in Reqs :
    /\ IsSend(r) /\ IsDone(r) /\ Did(r, "answer")
    /\ Truthy(ArgOf(r, "answer"))
    /\ ~StrictEquals(ArgOf(r, "answer"), JsTrue)

\* The parameters that the claims call invalid.
MissingOrEmptyEndpoints(ne) == ne.kind = "undefined" \/ (ne.kind = "array" /\ ne.length = 0)
InvalidSendParams(r) ==
  \/ request[r].sendingMode \notin {"TYPE_SYNC", "TYPE_ASYNC"}
  \/ ~IsHex64(request[r].publicKey)
  \/ MissingOrEmptyEndpoints(request[r].networkEndpoints)

\* C3: a client.send_transaction request with an invalid sendingMode, a
\* publicKey that is not 64 hex characters, or missing or empty
\* networkEndpoints fails with invalid parameters (code -1) without any
\* network call and without a review dialog.
C3_InvalidSendParamsRejected ==
  \A r \in Reqs :
    (IsSend(r) /\ InvalidSendParams(r)) =>
       /\ NoNetworkCall(r)
       /\ ~Did(r, "dialog")
       /\ IsDone(r) => FailsWith(r, -1)

\* The key pair of the request has been derived and its public key is not
\* the one the caller declared.
KeyMismatch(r) ==
  IsSend(r) /\ Did(r, "entropy") /\ IsDone(r) /\ publicKeyOf(0) # request[r].publicKey

\* C4: when the derived public key differs from the declared publicKey,
\* client.send_transaction fails with the unknown-public-key error (code -3,
\* 'Unknown public key'), not with code -1, and nothing is submitted.
C4_KeyMismatchIsUnknownPublicKey ==
  \A r \in Reqs :
    KeyMismatch(r) =>
       /\ FailsWith(r, -3)
       /\ ErrorOf(r).message = "Unknown public key"
       /\ ~Did(r, "submit")

SubmitFailed(r) ==
  /\ Did(r, "response")
  /\ ~(ArgOf(r, "response").transport = "ok" /\ ArgOf(r, "response").code = 0)

AllProbesFailed(r) ==
  /\ DOMAIN probes[r] # {}
  /\ \A i \in DOMAIN probes[r] : probes[r][i] = "fail"

\* The six conditions of the error taxonomy, as they arise for a request.
InTaxonomy(r) ==
  \/ request[r].method \notin
       {"client.list_keys", "client.get_chain_id", "client.send_transaction",
        "client.connect_wallet", "client.disconnect_wallet"}
  \/ IsSend(r) /\ InvalidSendParams(r)
  \/ IsGetChainId(r) /\ request[r].networkEndpoints.kind # "array"
  \/ IsGetChainId(r) /\ request[r].networkEndpoints.length = 0
  \/ KeyMismatch(r)
  \/ Denied(r)
  \/ SubmitFailed(r)
  \/ AllProbesFailed(r)

\* C5: every failure of the taxonomy is returned by onRpcRequest as the
\* value {error: {code, message, data}}; it is never thrown.
C5_FailuresAreEnvelopes ==
  \A r \in Reqs :
    (IsDone(r) /\ InTaxonomy(r)) =>
       /\ outcome[r].kind # "throw"
       /\ IsEnvelope(outcome[r])
       /\ DOMAIN outcome[r].value.error = {"code", "message", "data"}

\* The table of the claim.
ErrorTable ==
  {[code |-> -32601, message |-> "Method not found"],
   [code |-> -1, message |-> "Invalid parameters"],
   [code |-> -3, message |-> "Unknown public key"],
   [code |-> -4, message |-> "Transaction denied"],
   [code |-> -5, message |-> "Transaction failed"],
   [code |-> -6, message |-> "No healthy node"]}

CodeAndMessage(e) == [code |-> e.code, message |-> e.message]

C7_SubmitFailureIsTransactionFailed ==
  \A r \in Reqs :
    (IsSend(r) /\ SubmitFailed(r)) =>
       /\ FailsWith(r, -5)
       /\ ErrorOf(r).message = "Transaction failed"
       /\ ErrorOf(r).data = (IF ArgOf(r, "response").transport = "ok"
                              THEN JsNum(ArgOf(r, "response").code)
                              ELSE JsStr("Failed to fetch"))
       /\ ~(outcome[r].kind = "return" /\ "transactionHash" \in DOMAIN outcome[r].value)

\* A node was chosen, the transaction was submitted to it and the node
\* answered with a non-zero result code.
C7_Witness ==
  \E r \in Reqs :
    /\ IsSend(r) /\ IsDone(r) /\ node[r] # 0 /\ Did(r, "submit")
    /\ SubmitFailed(r)
    /\ ArgOf(r, "response").transport = "ok"

\* C8: the handle findHealthyNode returns is a candidate whose probe
\* succeeded; a request does not end with no-healthy-node when a probe of
\* its candidates succeeded; and when every probe failed the request ends
\* with the one no-healthy-node error (code -6).
C8_HealthyHandleOrNoHealthyNode ==
  \A r \in Reqs :
    /\ node[r] # 0 => (node[r] \in DOMAIN probes[r] /\ probes[r][node[r]] = "ok")
    /\ (IsDone(r) /\ \E i \in DOMAIN probes[r] : probes[r][i] = "ok")
          => (node[r] # 0 /\ ~FailsWith(r, -6))
    /\ (IsDone(r) /\ AllProbesFailed(r)) =>
          /\ node[r] = 0
          /\ FailsWith(r, -6)
          /\ ErrorOf(r) = JSONRPCError("No healthy node", -6, JsStr("No healthy node found"))

\* A candidate failed its probe, another one answered and is the handle.
C8_Witness ==
  \E r \in Reqs :
    /\ node[r] # 0
    /\ \E i \in DOMAIN probes[r] : probes[r][i] = "fail"

\* C9: client.get_chain_id with networkEndpoints missing, empty or not an
\* array fails with invalid parameters (code -1, data 'Invalid network
\* endpoints') and probes no endpoint.
C9_BadEndpointsAreInvalidParameters ==
  \A r \in Reqs :
    (IsGetChainId(r) /\ (request[r].networkEndpoints.kind # "array"
                           \/ request[r].networkEndpoints.length = 0)) =>
       /\ ~Did(r, "probe")
       /\ IsDone(r) => /\ FailsWith(r, -1)
                       /\ ErrorOf(r).data = JsStr("Invalid network endpoints")

BadCommand(r) == IsSend(r) /\ Len(ObjectKeys(request[r].transaction)) # 1

\* C10, as claimed (for requests whose other parameters pass the checks of
\* the handler): a command with zero or with two or more top-level keys is
\* rejected with invalid parameters before any network call, so that no
\* health probe, context fetch, submission or dialog occurs.
C10_BadCommandBeforeAnyNetworkCall ==
  \A r \in Reqs :
    (BadCommand(r) /\ ~invalidSendingMode(request[r].sendingMode)
                   /\ request[r].networkEndpoints.kind = "array"
                   /\ request[r].networkEndpoints.length > 0) =>
       /\ NoNetworkCall(r)
       /\ ~Did(r, "dialog")
       /\ IsDone(r) => FailsWith(r, -1)

\* C10, amended: a command with zero or with two or more top-level keys
\* never gets a review dialog, a context fetch, a key derivation, a signature
\* or a submission; its request fails, and once findHealthyNode has returned
\* a node (the liveness probes have been made by then) it fails with invalid
\* parameters (code -1, data 'Invalid transaction').
C10_BadCommandBeforeReview ==
  \A r \in Reqs :
    BadCommand(r) =>
       /\ \A op \in {"dialog", "height", "entropy", "sign", "submit"} : ~Did(r, op)
       /\ IsDone(r) => outcome[r].kind = "throw"
       /\ (IsDone(r) /\ node[r] # 0) =>
             /\ FailsWith(r, -1)
             /\ ErrorOf(r) = JSONRPCError("Invalid parameters", -1, JsStr("Invalid transaction"))

\* A command with two keys was rejected after the node was resolved.
C10_Witness ==
  \E r \in Reqs :
    /\ IsSend(r) /\ Len(ObjectKeys(request[r].transaction)) = 2
    /\ IsDone(r) /\ node[r] # 0 /\ Did(r, "probe")

UnknownCommand(r) ==
  /\ IsSend(r)
  /\ Len(ObjectKeys(request[r].transaction)) = 1
  /\ ObjectKeys(request[r].transaction)[1] \notin DOMAIN TransactionTitles

\* C11: a command whose single top-level key is not a recognised transaction
\* kind ('transfers') never gets a review dialog, a signature or a
\* submission; its request fails, and when the command is looked at (the
\* checks of the handler passed and a node was found) it fails with invalid
\* parameters (code -1, data 'Unknown transaction type').
C11_UnknownCommandRejected ==
  \A r \in Reqs :
    UnknownCommand(r) =>
       /\ \A op \in {"dialog", "answer", "sign", "submit"} : ~Did(r, op)
       /\ IsDone(r) => outcome[r].kind = "throw"
       /\ (IsDone(r) /\ node[r] # 0) =>
             /\ FailsWith(r, -1)
             /\ ErrorOf(r) =
                  JSONRPCError("Invalid parameters", -1, JsStr("Unknown transaction type"))

\* The command 'transfers' reached the review and was rejected there.
C11_Witness ==
  \E r \in Reqs :
    /\ UnknownCommand(r) /\ ObjectKeys(request[r].transaction) = <<"transfers">>
    /\ IsDone(r) /\ node[r] # 0 /\ FailsWith(r, -1)

\* The command inside the payload handed to submitRawTransaction.
SubmittedInputData(r) == ArgOf(r, "submit").tx[2][2].inputData
SubmittedCommand(r) == SubmittedInputData(r)[2].command

\* C12: in client.send_transaction the command shown in the review dialog
\* and the command encoded into the signed InputData are the sanitized
\* command: a field that the canonical schema does not have reaches neither
\* the dialog nor the submitted payload.
C12_OnlySanitizedCommandIsUsed ==
  \A r \in Reqs :
    IsSend(r) =>
       /\ Did(r, "dialog") =>
             /\ ArgOf(r, "dialog").transaction = sanitizeCommand(request[r].transaction)
             /\ ArgOf(r, "dialog").transaction.fields \subseteq SchemaFields
       /\ Did(r, "submit") =>
             /\ SubmittedCommand(r) = sanitizeCommand(request[r].transaction)
             /\ SubmittedCommand(r).fields \subseteq SchemaFields

\* The envelope handed to submitRawTransaction, out of its base64 form.
SubmittedEnvelope(r) == ArgOf(r, "submit").tx[2][2]

\* The JSON mirror of an envelope: the fields of the envelope, the input
\* data in base64 and the nonce of the proof of work as a decimal string.
JsonMirror(envelope) ==
  [inputData |-> toBase64(envelope.inputData),
   signature |-> envelope.signature,
   from |-> envelope.from,
   version |-> envelope.version,
   pow |-> [tid |-> envelope.pow.tid, nonce |-> toString(envelope.pow.nonce)]]

Accepted(r) ==
  /\ IsSend(r) /\ IsDone(r) /\ Did(r, "response")
  /\ ArgOf(r, "response").transport = "ok" /\ ArgOf(r, "response").code = 0

\* C13: when the review approved and the node accepted the submission,
\* client.send_transaction returns {sentAt, transactionHash, transaction}:
\* transactionHash is the txHash that this submitRawTransaction call
\* returned and transaction is the JSON mirror of the submitted envelope.
C13_ReturnsHashAndMirror ==
  \A r \in Reqs :
    Accepted(r) =>
       /\ StrictEquals(ArgOf(r, "answer"), JsTrue)
       /\ outcome[r].kind = "return"
       /\ DOMAIN outcome[r].value = {"sentAt", "transactionHash", "transaction"}
       /\ outcome[r].value.transactionHash = ArgOf(r, "response").txHash
       /\ outcome[r].value.transaction = JsonMirror(SubmittedEnvelope(r))

\* A submission was accepted with the second of the two hashes.
C13_Witness ==
  \E r \in Reqs :
    /\ Accepted(r) /\ ArgOf(r, "response").txHash = "9f3c"
    /\ outcome[r].kind = "return"

ClientMethods ==
  {"client.list_keys", "client.get_chain_id", "client.send_transaction",
   "client.connect_wallet", "client.disconnect_wallet"}

UnknownMethod(r) == pc[r] # "idle" /\ request[r].method \notin ClientMethods

\* C14: a request whose method is not one of the five client.* methods ends
\* with the method-not-found error (code -32601, message 'Method not found',
\* data null) and has no other effect: no entropy request, no network call,
\* no dialog.
C14_UnknownMethodIsMethodNotFound ==
  \A r \in Reqs :
    UnknownMethod(r) =>
       /\ log[r] = <<>>
       /\ IsDone(r)
       /\ FailsWith(r, -32601)
       /\ ErrorOf(r) = JSONRPCError("Method not found", -32601, JsNull)

\* C15: client.connect_wallet and client.disconnect_wallet return null and
\* do nothing else: they never fail, with method-not-found or otherwise, and
\* cause no entropy request, no network call and no dialog.
C15_ConnectAndDisconnectAreNoOps ==
  \A r \in Reqs :
    request[r].method \in {"client.connect_wallet", "client.disconnect_wallet"} =>
       /\ IsDone(r)
       /\ outcome[r] = Returned(JsNull)
       /\ log[r] = <<>>

\* A client.disconnect_wallet request has been served.
C15_Witness ==
  \E r \in Reqs :
    request[r].method = "client.disconnect_wallet" /\ outcome[r].kind = "return"

IsKeyCall(r) == request[r].method = "deriveKeyPair"
InInterval(index) == 0 <= index.hi /\ index.hi < 32768
KeyOfIndex(index) == publicKeyOf(index.hi + index.lo)

\* C16: deriveKeyPair(index) fails at its parameter check for every index
\* outside 0 <= index < 2^31 (negative, or 2^31 and above), and no entropy
\* request is sent to the host for such a call.
C16_IndexOutOfBoundsFails ==
  \A r \in Reqs :
    (IsKeyCall(r) /\ ~InInterval(request[r].index)) =>
       /\ IsDone(r)
       /\ outcome[r] = Thrown(AssertionError("Key index out of bounds"))
       /\ ~Did(r, "entropy")
       /\ log[r] = <<>>

\* deriveKeyPair was called with 2^31, the first index above the interval,
\* and with -1.
C16_Witness ==
  \E r, s \in Reqs :
    /\ IsKeyCall(r) /\ request[r].index = Wide(32768, 0) /\ IsDone(r)
    /\ IsKeyCall(s) /\ request[s].index = Wide(-1, 65535) /\ IsDone(s)

IsListKeys(r) == request[r].method = "client.list_keys"

\* 'Snap Key i' for i = 0, ..., 10.
SnapKeyNames ==
  <<"Snap Key 0", "Snap Key 1", "Snap Key 2", "Snap Key 3", "Snap Key 4", "Snap Key 5",
    "Snap Key 6", "Snap Key 7", "Snap Key 8", "Snap Key 9", "Snap Key 10">>

\* C18: client.list_keys returns the keys of the indices 0 to 10 in
\* ascending order, the entry of index i named 'Snap Key i' and carrying the
\* public key of deriveKeyPair(i); every call returns the same.
C18_ListKeysReturnsElevenKeys ==
  \A r \in Reqs :
    (IsListKeys(r) /\ IsDone(r)) =>
       /\ outcome[r].kind = "return"
       /\ Len(outcome[r].value.keys) = 11
       /\ \A i \in 0..10 :
            outcome[r].value.keys[i + 1] =
              [name |-> SnapKeyNames[i + 1], publicKey |-> KeyOfIndex(Num(i))]

\* The proof of work p is valid for the difficulty and the seed.
ValidPoW(p, difficulty, seed) ==
  leadingZeroBits(powDigest(seed, p.tid, p.nonce)) >= difficulty

First(r, op) == CHOOSE i \in Ops(r, op) : \A j \in Ops(r, op) : i <= j

\* The effect b has not occurred unless the effect a occurred before it.
Before(r, a, b) == Did(r, b) => (Did(r, a) /\ First(r, a) < First(r, b))

Approved(r) == Did(r, "answer") /\ StrictEquals(ArgOf(r, "answer"), JsTrue)

\* C20: a client.send_transaction request passes through its phases in the
\* order input validation, key resolution and comparison, node resolution,
\* context fetch, proof of work and encoding, approval, signing, submitting:
\* the review dialog is shown only after the key pair has been resolved and
\* matched and the proof of work and the input data are complete, and
\* signing and submission come only after the approval.
C20_PhasesInOrder ==
  \A r \in Reqs :
    IsSend(r) =>
       /\ Did(r, "entropy") => ~InvalidSendParams(r)
       /\ Before(r, "entropy", "probe")
       /\ Did(r, "probe") => request[r].publicKey = KeyOfIndex(Num(0))
       /\ Did(r, "height") => node[r] # 0
       /\ Before(r, "height", "dialog")
       /\ Did(r, "dialog") =>
             /\ latestBlock[r] \in ChainContexts
             /\ tasks[r].pow = "done" /\ tasks[r].inputData = "done"
       /\ Before(r, "dialog", "sign")
       /\ Did(r, "sign") => (Approved(r) /\ First(r, "answer") < First(r, "sign"))
       /\ Before(r, "sign", "submit")

TaskFailed(r) == tasks[r].pow = "failed" \/ tasks[r].inputData = "failed"

\* C21: the proof of work and the input data are two tasks that are joined:
\* in every interleaving, signing starts only after both have completed, and
\* when one of them fails the request fails with that failure, no signature
\* is made and nothing is submitted, whether or not the other task goes on
\* to complete.
C21_JoinBeforeSigning ==
  \A r \in Reqs :
    IsSend(r) =>
       /\ \A op \in {"entropy", "sign", "submit"} :
            Did(r, op) => (tasks[r].pow = "done" /\ tasks[r].inputData = "done")
       /\ Did(r, "sign") =>
             /\ tasks[r].powValue = SubmittedEnvelope(r).pow
             /\ tasks[r].inputDataValue = SubmittedEnvelope(r).inputData
       /\ TaskFailed(r) =>
             /\ IsDone(r)
             /\ outcome[r].kind = "throw"
             /\ outcome[r].error.message \in {"pow", "inputData"}
             /\ tasks[r][outcome[r].error.message] = "failed"
             /\ ~Did(r, "entropy") /\ ~Did(r, "sign") /\ ~Did(r, "submit")

\* The input data failed and the proof of work was solved all the same; and
\* the other way round.
C21_Witness ==
  \E r \in Reqs :
    /\ IsSend(r) /\ IsDone(r)
    /\ tasks[r].inputData = "failed" /\ tasks[r].pow = "done"
    /\ outcome[r] = Thrown(Error("inputData"))

\* Everything the model keeps of the request in slot r.
Slot(r) ==
  <<pc[r], request[r], probes[r], node[r], latestBlock[r], tasks[r], tx[r],
    outcome[r], log[r]>>

\* What the request has come to, told from its own answer and its own node
\* responses alone.
OwnOutcome(r) ==
  IF Denied(r) THEN Thrown(Error("User rejected the transaction"))
  ELSE IF AllProbesFailed(r) THEN Thrown(noHealthyNode)
  ELSE IF Accepted(r)
    THEN Returned([sentAt |-> "sentAt",
                   transactionHash |-> ArgOf(r, "response").txHash,
                   transaction |-> JsonMirror(SubmittedEnvelope(r))])
  ELSE IF SubmitFailed(r)
    THEN Thrown(transactionFailed(IF ArgOf(r, "response").transport = "ok"
                                    THEN JsNum(ArgOf(r, "response").code)
                                    ELSE JsStr("Failed to fetch")))
  ELSE Thrown(Error("Failed to fetch"))

\* The submitted envelope is made of the command, the key and the chain
\* context of the request itself.
OwnEnvelope(r) ==
  LET e == SubmittedEnvelope(r)
  IN /\ e.inputData[2].command = encodedCommand(request[r].transaction)
     /\ e.inputData[2].blockHeight = latestBlock[r].height
     /\ e.from.pubKey = request[r].publicKey
     /\ e.signature.value = toHex(sign(deriveKeyPair(Num(0)), e.inputData, latestBlock[r].chainId))
     /\ e.pow = solve(latestBlock[r].spamPowDifficulty, latestBlock[r].hash, e.pow.tid)

IsolatedRequests ==
  \A r \in Reqs :
    IsSend(r) =>
       /\ Did(r, "submit") => (Approved(r) /\ OwnEnvelope(r))
       /\ Denied(r) => (IsDone(r) /\ ~Did(r, "sign") /\ ~Did(r, "submit"))
       /\ IsDone(r) => outcome[r] = OwnOutcome(r)

\* A step is a step of one request: the other request is left as it is.
OneRequestSteps == \E r \in Reqs : \A s \in Reqs \ {r} : Slot(s)' = Slot(s)

Count(r, op) == Cardinality(Ops(r, op))

\* The effects of a request, each at most once.
AtMostOnce ==
  \A r \in Reqs :
    IsSend(r) =>
       /\ \A op \in {"dialog", "answer", "height", "entropy", "sign", "submit", "response"} :
            Count(r, op) <= 1
       /\ \A i \in DOMAIN probes[r] :
            Cardinality({k \in Ops(r, "probe") :
                           log[r][k].arg[1] = request[r].networkEndpoints.val[i]}) <= 1
       /\ (IsDone(r) /\ outcome[r].kind = "throw") =>
             \/ Len(log[r]) = 0
             \/ log[r][Len(log[r])].op \in {"probe", "answer", "height", "entropy", "response"}

\* A request that has ended has no further effect and does not start
\* again: its slot stays as it is until the response is delivered.
FailureIsTerminal ==
  \A r \in Reqs :
    IsDone(r) =>
       \/ (pc'[r] = "done" /\ log'[r] = log[r] /\ outcome'[r] = outcome[r])
       \/ (pc'[r] = "idle" /\ log'[r] = <<>>)

\* C23: no step of a request is retried: within a client.send_transaction
\* request the review dialog is opened at most once and
\* submitRawTransaction is invoked at most once, and after the failure of a
\* step the request ends with that failure and runs no step again.
C23_NoRetries == []AtMostOnce /\ [][FailureIsTerminal]_vars

\* A submission failed and the request has ended with its one submission.
C23_Witness ==
  \E r \in Reqs :
    /\ IsSend(r) /\ IsDone(r) /\ SubmitFailed(r)
    /\ Count(r, "submit") = 1 /\ Count(r, "dialog") = 1

\* The endpoint of the handle that findHealthyNode returned for the request.
HandleUrl(r) == request[r].networkEndpoints.val[node[r]]

\* The request ended at its context fetch: the fetch was the last effect,
\* no task was started and nothing was returned.
ContextFetchFailed(r) ==
  /\ IsDone(r) /\ Did(r, "height")
  /\ log[r][Len(log[r])].op = "height"
  /\ tasks[r].pow = "idle" /\ tasks[r].inputData = "idle"
  /\ outcome[r].kind = "throw"

\* C24: failover belongs to the resolution of the node handle alone: once
\* findHealthyNode has returned a handle, the context fetch and the
\* submission go to that node, a failure of either makes the request fail,
\* and no other candidate of networkEndpoints is contacted after it.
C24_FailoverOnlyAtResolution ==
  \A r \in Reqs :
    ((IsSend(r) \/ IsGetChainId(r)) /\ node[r] # 0) =>
       /\ \A k \in Ops(r, "height") : log[r][k].arg = HandleUrl(r)
       /\ \A k \in Ops(r, "submit") : log[r][k].arg.url = HandleUrl(r)
       /\ Count(r, "height") <= 1 /\ Count(r, "submit") <= 1
       /\ \A k \in Ops(r, "probe"), op \in {"dialog", "height", "submit"} :
            Did(r, op) => k < First(r, op)
       /\ ContextFetchFailed(r) =>
             (outcome[r] = Thrown(Error("Failed to fetch")) /\ ~Did(r, "submit"))
       /\ SubmitFailed(r) => (IsDone(r) /\ outcome[r].kind = "throw")

\* The context fetch of the chosen node failed while another candidate of
\* the list had answered its probe, or had not been probed yet.
C24_Witness ==
  \E r \in Reqs :
    /\ IsSend(r) /\ node[r] # 0 /\ ContextFetchFailed(r)
    /\ \E i \in DOMAIN probes[r] : i # node[r] /\ probes[r][i] # "fail"

\* C25: for every transaction of the encoder the JSON mirror and the raw
\* envelope describe the same transaction field by field: the mirror's
\* inputData is the base64 of the signed InputData bytes, the signature
\* (value, algo, version) and from.pubKey are equal in both, the version is
\* 3 in both, and the mirror's pow.tid and pow.nonce are the tid and the
\* nonce, as a string, of the proof of work of the raw envelope.
C25_MirrorEqualsEnvelope ==
  \A r \in Reqs :
    tx[r] # NoTx =>
       LET e == tx[r].raw[2]
           j == tx[r].json
       IN /\ DOMAIN j = DOMAIN e
          /\ j.inputData = <<"base64", e.inputData>>
          /\ e.signature.value[2][4] = e.inputData
          /\ j.signature.value = e.signature.value
          /\ j.signature.algo = e.signature.algo
          /\ j.signature.version = e.signature.version
          /\ j.from.pubKey = e.from.pubKey
          /\ j.version = 3 /\ e.version = 3
          /\ j.pow.tid = e.pow.tid
          /\ j.pow.nonce = <<"string", e.pow.nonce>>
          /\ e.pow = tasks[r].powValue

\* A transaction was encoded whose proof of work has a nonce other than
\* its tid.
C25_Witness ==
  \E r \in Reqs :
    /\ tx[r] # NoTx
    /\ tx[r].raw[2].pow.nonce # tx[r].raw[2].pow.tid
    /\ Did(r, "submit")

\* What a signature was made with: the key, the chain and the signed bytes.
SignerOf(signature) == signature.value[2][2]
ChainOf(signature) == signature.value[2][3]
SignedBytes(signature) == signature.value[2][4]

\* C26: in every submitted envelope the signature is over the InputData
\* bytes of that envelope, not over the envelope, with the chain identifier
\* of the chain context that this request fetched; the same context gives
\* the blockHeight of the InputData and the difficulty and block hash of the
\* proof of work.
C26_SignatureScopeAndContext ==
  \A r \in Reqs :
    (IsSend(r) /\ Did(r, "submit")) =>
       LET e == SubmittedEnvelope(r)
           block == latestBlock[r]
       IN /\ block \in ChainContexts
          /\ SignedBytes(e.signature) = e.inputData
          /\ SignedBytes(e.signature) # <<"Transaction", e>>
          /\ e.inputData[1] = "InputData"
          /\ ChainOf(e.signature) = block.chainId
          /\ e.inputData[2].blockHeight = block.height
          /\ e.pow = solve(block.spamPowDifficulty, block.hash, e.pow.tid)
          /\ ArgOf(r, "sign") = e.signature

\* A transaction for the second chain was signed and submitted.
C26_Witness ==
  \E r \in Reqs :
    /\ IsSend(r) /\ Did(r, "submit")
    /\ latestBlock[r].chainId = "mainnet"
    /\ ChainOf(SubmittedEnvelope(r).signature) = "mainnet"

\* The command that the review dialog of request r displayed.
ReviewedCommand(r) == ArgOf(r, "dialog").transaction

\* C27: in every send request that reaches submission, the command in the
\* signed and submitted InputData is the encoding of the very command value
\* that the approved review dialog displayed, which is the command of the
\* request: nothing between the review and the encoding replaces or alters it.
C27_ReviewedCommandIsEncoded ==
  \A r \in Reqs :
    (IsSend(r) /\ Did(r, "submit")) =>
       /\ Approved(r)
       /\ First(r, "answer") < First(r, "submit")
       /\ ReviewedCommand(r) = request[r].transaction
       /\ SubmittedCommand(r) = encodedCommand(ReviewedCommand(r))
       /\ SignedBytes(SubmittedEnvelope(r).signature)[2].command
            = encodedCommand(ReviewedCommand(r))

\* An approved command with fields was encoded, signed and submitted.
C27_Witness ==
  \E r \in Reqs :
    /\ IsSend(r) /\ Did(r, "submit") /\ Approved(r)
    /\ ReviewedCommand(r).fields # {}
    /\ SubmittedCommand(r).fields # {}

\* C28: in every send request that reaches submission, the node that
\* submitRawTransaction is sent to is the handle that findHealthyNode
\* returned, the review dialog displayed the origin of that handle as the
\* selected network entrypoint, and no candidate is probed after the dialog:
\* the node is not resolved again between review and submission.
C28_SubmitsToReviewedNode ==
  \A r \in Reqs :
    (IsSend(r) /\ Did(r, "submit")) =>
       /\ Did(r, "dialog")
       /\ ArgOf(r, "submit").url = HandleUrl(r)
       /\ ArgOf(r, "dialog").entrypoint = URLOrigin[ArgOf(r, "submit").url]
       /\ \A i \in Ops(r, "probe") : i < First(r, "dialog")
       /\ \A i \in Ops(r, "height") : log[r][i].arg = HandleUrl(r)

\* A transaction was submitted to the second candidate of a list, after the
\* first one failed its probe, and the dialog displayed its origin.
C28_Witness ==
  \E r \in Reqs :
    /\ IsSend(r) /\ Did(r, "submit")
    /\ node[r] = 2
    /\ ArgOf(r, "dialog").entrypoint = "http://b"
    /\ ArgOf(r, "submit").url = "http://b/y"

\* C29: in every envelope passed to submitRawTransaction, from.pubKey is the
\* publicKey parameter of the request and the signature was made by the key
\* pair that has this public key: no envelope is submitted that was signed
\* by a key other than the one the caller declared.
C29_SignedByDeclaredKey ==
  \A r \in Reqs :
    \A i \in Ops(r, "submit") :
       LET e == log[r][i].arg.tx[2][2]
       IN /\ e.from.pubKey = request[r].publicKey
          /\ KeyOfIndex(SignerOf(e.signature)) = request[r].publicKey
          /\ SubmittedEnvelope(r).from.pubKey \in PublicKeys

\* An envelope of the declared key was signed and submitted.
C29_Witness ==
  \E r \in Reqs :
    /\ IsSend(r) /\ Did(r, "submit")
    /\ SubmittedEnvelope(r).from.pubKey = publicKeyOf(0)
    /\ request[r].publicKey = publicKeyOf(0)

\* The endpoints that the caller of request r supplied.
SuppliedEndpoints(r) ==
  {request[r].networkEndpoints.val[i] : i \in DOMAIN request[r].networkEndpoints.val}

\* The effects that only client.send_transaction may have.
SendOnlyOps == {"dialog", "answer", "sign", "submit"}

\* C30: whatever requests came before, only client.send_transaction opens a
\* review dialog, signs or calls submitRawTransaction; client.list_keys
\* makes no network call and opens no dialog (it asks the host for the key
\* of index 0 and nothing else); client.get_chain_id makes only liveness
\* probes and the context fetch, against endpoints of its own list; the
\* no-op methods and an unknown method have no effect at all.
C30_OnlySendReviewsAndSubmits ==
  \A r \in Reqs :
    /\ (\E op \in SendOnlyOps : Did(r, op)) => IsSend(r)
    /\ IsListKeys(r) =>
          /\ NoNetworkCall(r)
          /\ \A i \in DOMAIN log[r] : log[r][i] = entropyRequest(Num(0))
    /\ IsGetChainId(r) =>
          /\ \A i \in DOMAIN log[r] : log[r][i].op \in {"probe", "height"}
          /\ \A i \in Ops(r, "probe") : log[r][i].arg[1] \in SuppliedEndpoints(r)
          /\ \A i \in Ops(r, "height") : log[r][i].arg \in SuppliedEndpoints(r)
    /\ (~IsSend(r) /\ ~IsListKeys(r) /\ ~IsGetChainId(r)) => log[r] = <<>>

\* A client.get_chain_id request has probed its candidates, fetched the
\* chain context and returned the chain identifier.
C30_Witness ==
  \E r \in Reqs :
    /\ IsGetChainId(r) /\ IsDone(r)
    /\ Did(r, "probe") /\ Did(r, "height")
    /\ outcome[r].kind = "return"

====
